---- MODULE Spec2Model ----
(***************************************************************************)
(* The two stack constructors of the repository (AwsCdkEc2Stack and        *)
(* AwsCdkFargateStack) as a state machine.  A constructor is a straight    *)
(* line of construct-library calls; each call is one action.  The effect   *)
(* of a call on the construct tree (security-group rules added by          *)
(* Connections, subnet allocation, listener/target-group wiring) is the    *)
(* effect the construct library gives to that call.                        *)
(***************************************************************************)
EXTENDS Integers, Sequences, FiniteSets, TLC

\* ------------------------------------------------------------------ bounds

\* Largest number of availability zones the subnet groups are instantiated in.
MaxAzs == 3

\* The domain names and resource-name prefixes the constructors are run with:
\* the ones the source fixes, and the ones of the example scenario.
Domains == {"nikolatec.com", "example.com"}
Prefixes == {"backend-api", "svc"}

Variants == {"Ec2", "Fargate"}

\* A property that a call leaves unset.
Undefined == "undefined"
\* A rule field that does not apply (a CIDR rule has no source group, ...).
None == "none"

VARIABLES domainName, projectName, numAzs, stack

vars == <<domainName, projectName, numAzs, stack>>

\* ------------------------------------------- the statements of AwsCdkEc2Stack

Ec2Vpc(d, p) ==
    [op |-> "Vpc", var |-> "vpc", id |-> p \o "-vpc",
     cidr |-> [ip |-> <<10, 1, 0, 0>>, mask |-> 16],
     vpcName |-> p \o "-vpc",
     enableDnsHostnames |-> TRUE,
     enableDnsSupport |-> TRUE,
     subnetConfiguration |->
        << [cidrMask |-> 24, name |-> "PublicSubnet", subnetType |-> "PUBLIC"],
           [cidrMask |-> 24, name |-> "PrivateIsolatedSubnet",
            subnetType |-> "PRIVATE_ISOLATED"] >>]

Ec2SecurityGroupELB(d, p) ==
    [op |-> "SecurityGroup", var |-> "securityGroupELB",
     id |-> p \o "-security-group-elb", vpc |-> "vpc",
     securityGroupName |-> p \o "-security-group-elb"]

Ec2AddIngressRule(d, p) ==
    [op |-> "AddIngressRule", securityGroup |-> "securityGroupELB",
     peer |-> [cidrIp |-> "0.0.0.0/0"],
     connection |-> [ipProtocol |-> "tcp", fromPort |-> 443, toPort |-> 443],
     description |-> "allow HTTPS traffic from anywhere"]

Ec2SecurityGroupApp(d, p) ==
    [op |-> "SecurityGroup", var |-> "securityGroupApp",
     id |-> p \o "-security-group-app", vpc |-> "vpc",
     securityGroupName |-> p \o "-security-group-app"]

Ec2HostedZone(d, p) ==
    [op |-> "HostedZoneFromLookup", var |-> "hostedZone",
     id |-> p \o "-hosted-zone", domainName |-> d]

Ec2Certificate(d, p) ==
    [op |-> "DnsValidatedCertificate", var |-> "cert",
     id |-> p \o "-certificate", domainName |-> d,
     hostedZone |-> "hostedZone", region |-> "us-east-1"]

Ec2LoadBalancer(d, p) ==
    [op |-> "ApplicationLoadBalancer", var |-> "alb", id |-> p \o "-alb",
     vpc |-> "vpc", internetFacing |-> TRUE,
     securityGroup |-> "securityGroupELB",
     loadBalancerName |-> p \o "-alb"]

Ec2ListenerPort80(d, p) ==
    [op |-> "AddListener", var |-> "listenerHTTP", loadBalancer |-> "alb",
     id |-> p \o "-listener-http", port |-> 80,
     certificates |-> <<>>]

Ec2Listener(d, p) ==
    [op |-> "AddListener", var |-> "listenerHTTP", loadBalancer |-> "alb",
     id |-> p \o "-listener-http", port |-> 443,
     certificates |-> <<"cert">>]

Ec2TargetGroup(d, p) ==
    [op |-> "ApplicationTargetGroup", var |-> "targetGroup",
     id |-> p \o "-target-group", vpc |-> "vpc", port |-> 3000,
     targetType |-> "IP", protocol |-> "HTTP",
     targetGroupName |-> p \o "-target-group",
     healthCheck |-> [path |-> "/", healthyHttpCodes |-> "200"]]

Ec2AddTargetGroups(d, p) ==
    [op |-> "AddTargetGroups", listener |-> "listenerHTTP",
     id |-> p \o "-default-https-response",
     targetGroups |-> <<"targetGroup">>]

Ec2Cluster(d, p) ==
    [op |-> "Cluster", var |-> "cluster", id |-> p \o "-cluster",
     vpc |-> "vpc", clusterName |-> p \o "-cluster"]

Ec2TaskDefinitionCpu256(d, p) ==
    [op |-> "FargateTaskDefinition", var |-> "fargateTaskDefinition",
     id |-> p \o "-task-def", memoryLimitMiB |-> 1024, cpu |-> 256]

Ec2TaskDefinition(d, p) ==
    [op |-> "FargateTaskDefinition", var |-> "fargateTaskDefinition",
     id |-> p \o "-task-def", memoryLimitMiB |-> 1024, cpu |-> 512]

Ec2Container(d, p) ==
    [op |-> "AddContainer", var |-> "container",
     taskDefinition |-> "fargateTaskDefinition",
     id |-> p \o "-container", containerName |-> p \o "-container",
     image |-> "../backend-api",
     logging |-> [streamPrefix |-> "nest-app", logRetention |-> 30]]

Ec2AddPortMappings8080(d, p) ==
    [op |-> "AddPortMappings", container |-> "container",
     containerPort |-> 8080, hostPort |-> 8080]

Ec2AddPortMappings(d, p) ==
    [op |-> "AddPortMappings", container |-> "container",
     containerPort |-> 3000, hostPort |-> 3000]

Ec2ServiceWrongGroup(d, p) ==
    [op |-> "FargateService", var |-> "service", id |-> p \o "-service",
     cluster |-> "cluster", serviceName |-> p \o "-service",
     taskDefinition |-> "fargateTaskDefinition", desiredCount |-> 1,
     assignPublicIp |-> TRUE, securityGroups |-> <<"securityGroupELB">>]

Ec2Service(d, p) ==
    [op |-> "FargateService", var |-> "service", id |-> p \o "-service",
     cluster |-> "cluster", serviceName |-> p \o "-service",
     taskDefinition |-> "fargateTaskDefinition", desiredCount |-> 1,
     assignPublicIp |-> TRUE, securityGroups |-> <<"securityGroupApp">>]

Ec2Attach(d, p) ==
    [op |-> "AttachToApplicationTargetGroup", service |-> "service",
     targetGroup |-> "targetGroup"]

Ec2ARecordBareDomain(d, p) ==
    [op |-> "ARecord", id |-> p \o "-alias-record", zone |-> "hostedZone",
     recordName |-> d,
     target |-> [alias |-> "alb"]]

Ec2ARecord(d, p) ==
    [op |-> "ARecord", id |-> p \o "-alias-record", zone |-> "hostedZone",
     recordName |-> "backend." \o d,
     target |-> [alias |-> "alb"]]

\* The constructor of AwsCdkEc2Stack: its statements in source order.
AwsCdkEc2Stack(d, p) ==
    << Ec2Vpc(d, p), Ec2SecurityGroupELB(d, p), Ec2AddIngressRule(d, p),
       Ec2SecurityGroupApp(d, p), Ec2HostedZone(d, p), Ec2Certificate(d, p),
       Ec2LoadBalancer(d, p), Ec2Listener(d, p), Ec2TargetGroup(d, p),
       Ec2AddTargetGroups(d, p), Ec2Cluster(d, p), Ec2TaskDefinition(d, p),
       Ec2Container(d, p), Ec2AddPortMappings(d, p), Ec2Service(d, p),
       Ec2Attach(d, p), Ec2ARecord(d, p) >>

\* ---------------------------------------- the statements of AwsCdkFargateStack

\* The constructor of AwsCdkFargateStack: its statements in source order.
AwsCdkFargateStack(d, p) ==
    << [op |-> "Vpc", var |-> "vpc", id |-> p \o "-vpc",
        cidr |-> [ip |-> <<10, 1, 0, 0>>, mask |-> 16],
        vpcName |-> p \o "-vpc",
        enableDnsHostnames |-> TRUE,
        enableDnsSupport |-> TRUE,
        subnetConfiguration |->
           << [cidrMask |-> 24, name |-> "PublicSubnet",
               subnetType |-> "PUBLIC"],
              [cidrMask |-> 24, name |-> "PrivateIsolatedSubnet",
               subnetType |-> "PRIVATE_ISOLATED"] >>],
       [op |-> "SecurityGroup", var |-> "securityGroupELB",
        id |-> p \o "-security-group-elb", vpc |-> "vpc",
        securityGroupName |-> p \o "-security-group-elb"],
       [op |-> "AddIngressRule", securityGroup |-> "securityGroupELB",
        peer |-> [cidrIp |-> "0.0.0.0/0"],
        connection |-> [ipProtocol |-> "tcp", fromPort |-> 443,
                        toPort |-> 443],
        description |-> "allow HTTPS traffic from anywhere"],
       [op |-> "SecurityGroup", var |-> "securityGroupApp",
        id |-> p \o "-security-group-app", vpc |-> "vpc",
        securityGroupName |-> p \o "-security-group-app"],
       [op |-> "HostedZoneFromLookup", var |-> "hostedZone",
        id |-> p \o "-hosted-zone", domainName |-> d],
       [op |-> "DnsValidatedCertificate", var |-> "cert",
        id |-> p \o "-certificate",
        certificateName |-> p \o "-certificate", domainName |-> d,
        hostedZone |-> "hostedZone", region |-> "us-east-1"],
       [op |-> "ApplicationLoadBalancer", var |-> "alb", id |-> p \o "-alb",
        vpc |-> "vpc", internetFacing |-> TRUE,
        securityGroup |-> "securityGroupELB",
        loadBalancerName |-> p \o "-alb"],
       [op |-> "AddListener", var |-> "listenerHTTP", loadBalancer |-> "alb",
        id |-> p \o "-listener-http", port |-> 443,
        certificates |-> <<"cert">>],
       [op |-> "ApplicationTargetGroup", var |-> "targetGroup",
        id |-> p \o "-target-group", vpc |-> "vpc", port |-> 3000,
        targetType |-> "IP", protocol |-> "HTTP",
        targetGroupName |-> p \o "-target-group",
        healthCheck |-> [path |-> "/", healthyHttpCodes |-> "200"]],
       [op |-> "AddTargetGroups", listener |-> "listenerHTTP",
        id |-> p \o "-default-https-response",
        targetGroups |-> <<"targetGroup">>],
       [op |-> "Cluster", var |-> "cluster", id |-> p \o "-cluster",
        vpc |-> "vpc", clusterName |-> p \o "-cluster"],
       [op |-> "FargateTaskDefinition", var |-> "fargateTaskDefinition",
        id |-> p \o "-task-def", memoryLimitMiB |-> 1024, cpu |-> 512],
       [op |-> "AddContainer", var |-> "container",
        taskDefinition |-> "fargateTaskDefinition",
        id |-> p \o "-container", containerName |-> p \o "-container",
        image |-> "../backend-api",
        logging |-> [streamPrefix |-> "nest-app", logRetention |-> 30]],
       [op |-> "AddPortMappings", container |-> "container",
        containerPort |-> 3000, hostPort |-> 3000],
       [op |-> "FargateService", var |-> "service", id |-> p \o "-service",
        cluster |-> "cluster", serviceName |-> p \o "-service",
        taskDefinition |-> "fargateTaskDefinition", desiredCount |-> 1,
        assignPublicIp |-> TRUE, securityGroups |-> <<"securityGroupApp">>],
       [op |-> "AttachToApplicationTargetGroup", service |-> "service",
        targetGroup |-> "targetGroup"],
       [op |-> "ARecord", id |-> p \o "-alias-record", zone |-> "hostedZone",
        recordName |-> "backend." \o d,
        target |-> [alias |-> "alb"]] >>

\* ------------------------------------------------ the two programs, running

Program(v) ==
    IF v = "Ec2" THEN AwsCdkEc2Stack(domainName, projectName)
                 ELSE AwsCdkFargateStack(domainName, projectName)

\* The constructor with the load balancer and the DNS record in each other's
\* place.
StmtSwapped(v, i) ==
    Program(v)[IF i = 7 THEN 17 ELSE IF i = 17 THEN 7 ELSE i]

\* The i-th statement of variant v's constructor: statements run one after
\* the other, top to bottom.
Stmt(v, i) == Program(v)[i]

Range(s) == {s[i] : i \in DOMAIN s}

\* The local constants a statement reads.
Refs(s) ==
    CASE s.op = "Vpc" -> {}
      [] s.op = "SecurityGroup" -> {s.vpc}
      [] s.op = "AddIngressRule" -> {s.securityGroup}
      [] s.op = "HostedZoneFromLookup" -> {}
      [] s.op = "DnsValidatedCertificate" -> {s.hostedZone}
      [] s.op = "ApplicationLoadBalancer" -> {s.vpc, s.securityGroup}
      [] s.op = "AddListener" -> {s.loadBalancer} \cup Range(s.certificates)
      [] s.op = "ApplicationTargetGroup" -> {s.vpc}
      [] s.op = "AddTargetGroups" -> {s.listener} \cup Range(s.targetGroups)
      [] s.op = "Cluster" -> {s.vpc}
      [] s.op = "FargateTaskDefinition" -> {}
      [] s.op = "AddContainer" -> {s.taskDefinition}
      [] s.op = "AddPortMappings" -> {s.container}
      [] s.op = "FargateService" ->
            {s.cluster, s.taskDefinition} \cup Range(s.securityGroups)
      [] s.op = "AttachToApplicationTargetGroup" -> {s.service, s.targetGroup}
      [] s.op = "ARecord" -> {s.zone, s.target.alias}

\* The local constant a statement declares, if any.
Binds(s) == IF "var" \in DOMAIN s THEN {s.var} ELSE {}

\* ------------------------------------------------------- subnet allocation

IpToNum(ip) == ip[1] * 16777216 + ip[2] * 65536 + ip[3] * 256 + ip[4]

NetSize(mask) == 2 ^ (32 - mask)

\* The block of the given mask at, or next after, address ip.
CidrBlock(ip, mask) ==
    LET size == NetSize(mask)
        net == IF ip % size = 0 THEN ip ELSE ip + size - (ip % size)
    IN [min |-> net, max |-> net + size - 1, mask |-> mask]

RECURSIVE AddSubnetsNoAdvance(_, _)
AddSubnetsNoAdvance(next, masks) ==
    IF Len(masks) = 0 THEN <<>>
    ELSE LET b == CidrBlock(next, Head(masks))
         IN <<b>> \o AddSubnetsNoAdvance(next, Tail(masks))

\* The subnet groups' blocks: each group in configuration order, one block
\* per availability zone, each taken at the next available address.
RECURSIVE AddSubnets(_, _)
AddSubnets(next, masks) ==
    IF Len(masks) = 0 THEN <<>>
    ELSE LET b == CidrBlock(next, Head(masks))
         IN <<b>> \o AddSubnets(b.max + 1, Tail(masks))

CreateSubnets(cidr, configs, azs) ==
    LET parent == CidrBlock(IpToNum(cidr.ip), cidr.mask)
        n == Len(configs) * azs
        cfg(k) == configs[((k - 1) \div azs) + 1]
        blocks == AddSubnets(parent.min, [k \in 1..n |-> cfg(k).cidrMask])
    IN [k \in 1..n |->
          [group |-> cfg(k).name, subnetType |-> cfg(k).subnetType,
           az |-> ((k - 1) % azs) + 1,
           min |-> blocks[k].min, max |-> blocks[k].max]]

\* ------------------------------------------------------ security-group rules

PeerIpv4(cidr) == [cidrIp |-> cidr, sourceSecurityGroupId |-> None]

PeerGroup(g) == [cidrIp |-> None, sourceSecurityGroupId |-> g]

PortTcp(port) == [ipProtocol |-> "tcp", fromPort |-> port, toPort |-> port]

IngressRule(group, peer, connection, description) ==
    [group |-> group, ipProtocol |-> connection.ipProtocol,
     fromPort |-> connection.fromPort, toPort |-> connection.toPort,
     cidrIp |-> peer.cidrIp,
     sourceSecurityGroupId |-> peer.sourceSecurityGroupId,
     description |-> description]

\* Two rules of a group are the same rule whatever their descriptions.
IngressRulesEqual(a, b) ==
    /\ a.group = b.group
    /\ a.cidrIp = b.cidrIp
    /\ a.fromPort = b.fromPort
    /\ a.toPort = b.toPort
    /\ a.ipProtocol = b.ipProtocol
    /\ a.sourceSecurityGroupId = b.sourceSecurityGroupId

AddIngressRuleNoDedup(rules, rule) == Append(rules, rule)

\* addIngressRule: a rule the group already has is not added again.
AddIngressRule(rules, rule) ==
    IF \E i \in DOMAIN rules : IngressRulesEqual(rules[i], rule)
    THEN rules
    ELSE Append(rules, rule)

RECURSIVE AddIngressRules(_, _)
AddIngressRules(rules, new) ==
    IF Len(new) = 0 THEN rules
    ELSE AddIngressRules(AddIngressRule(rules, Head(new)), Tail(new))

\* Connections.allowFrom: every group of the connectable admits every peer.
AllowFrom(rules, groups, peers, connection, description) ==
    LET n == Len(groups) * Len(peers)
    IN AddIngressRules(rules,
         [k \in 1..n |->
            IngressRule(groups[((k - 1) \div Len(peers)) + 1],
                        peers[((k - 1) % Len(peers)) + 1],
                        connection, description)])

\* ------------------------------------------------- listener and target group

DefaultProtocolForPort(port) ==
    IF port \in {80, 8000, 8008, 8080} THEN "HTTP"
    ELSE IF port \in {443, 8443} THEN "HTTPS"
    ELSE "error"

\* A listener is open to anyone unless the call says otherwise.
ListenerOpen(s) == IF "open" \in DOMAIN s THEN s.open ELSE TRUE

ListenerRegisterConnectableWrongPort(rules, st, listener, member) ==
    AllowFrom(rules, st.services[member.connectable].securityGroups,
              [i \in DOMAIN st.albs[st.listeners[listener].loadBalancer].securityGroups |->
                 PeerGroup(st.albs[st.listeners[listener].loadBalancer].securityGroups[i])],
              PortTcp(st.listeners[listener].port), "Load balancer to target")

\* The listener's balancer may reach the member on the member's port.
ListenerRegisterConnectable(rules, st, listener, member) ==
    LET lbGroups == st.albs[st.listeners[listener].loadBalancer].securityGroups
    IN AllowFrom(rules, st.services[member.connectable].securityGroups,
                 [i \in DOMAIN lbGroups |-> PeerGroup(lbGroups[i])],
                 member.portRange, "Load balancer to target")

\* Every pair (listener, member) of the two sequences is connected.
RECURSIVE ConnectAll(_, _, _, _)
ConnectAll(rules, st, listeners, members) ==
    IF Len(listeners) = 0 THEN rules
    ELSE IF Len(members) = 0 THEN rules
    ELSE LET first == ListenerRegisterConnectable(rules, st, Head(listeners),
                                                  Head(members))
             row == ConnectAll(first, st, <<Head(listeners)>>, Tail(members))
         IN ConnectAll(row, st, Tail(listeners), members)

RECURSIVE MembersOf(_, _)
MembersOf(st, tgs) ==
    IF Len(tgs) = 0 THEN <<>>
    ELSE st.targetGroups[Head(tgs)].connectableMembers
            \o MembersOf(st, Tail(tgs))

\* ------------------------------------------------------------------- state

Empty == [x \in {} |-> 0]

InitStack ==
    [pc |-> 1, bound |-> {}, log |-> <<>>,
     vpcs |-> Empty, securityGroups |-> Empty, ingress |-> <<>>,
     zones |-> Empty, certs |-> Empty, albs |-> Empty, listeners |-> Empty,
     targetGroups |-> Empty, clusters |-> Empty, taskDefs |-> Empty,
     containers |-> Empty, services |-> Empty, records |-> {}]

Init ==
    /\ domainName \in Domains
    /\ projectName \in Prefixes
    /\ numAzs \in 1..MaxAzs
    /\ stack = [v \in Variants |-> InitStack]

Running(v) == stack[v].pc <= Len(Program(v))

Done(v) == stack[v].pc = Len(Program(v)) + 1

Cur(v) == Stmt(v, stack[v].pc)

\* The next statement of v is an `op`, and every constant it reads is declared.
Ready(v, op) ==
    /\ Running(v)
    /\ Cur(v).op = op
    /\ Refs(Cur(v)) \subseteq stack[v].bound

\* The statement has run: st is the construct tree it leaves.
Step(v, st) ==
    /\ stack' = [stack EXCEPT ![v] =
                   [st EXCEPT !.pc = @ + 1,
                              !.bound = @ \cup Binds(Cur(v)),
                              !.log = Append(@, Cur(v).op)]]
    /\ UNCHANGED <<domainName, projectName, numAzs>>

\* ----------------------------------------------------------------- actions

\* new ec2.Vpc: the network and its subnets, if they fit the network's range.
NewVpc(v) ==
    /\ Ready(v, "Vpc")
    /\ LET s == Cur(v)
           parent == CidrBlock(IpToNum(s.cidr.ip), s.cidr.mask)
           subnets == CreateSubnets(s.cidr, s.subnetConfiguration, numAzs)
       IN /\ \A k \in DOMAIN subnets : subnets[k].max <= parent.max
          /\ Step(v, [stack[v] EXCEPT !.vpcs = @ @@ (s.var :>
                 [id |-> s.id, vpcName |-> s.vpcName,
                  min |-> parent.min, max |-> parent.max,
                  enableDnsHostnames |-> s.enableDnsHostnames,
                  enableDnsSupport |-> s.enableDnsSupport,
                  subnets |-> subnets])])

\* new ec2.SecurityGroup: a group with no ingress rule yet.
NewSecurityGroup(v) ==
    /\ Ready(v, "SecurityGroup")
    /\ LET s == Cur(v)
       IN Step(v, [stack[v] EXCEPT !.securityGroups = @ @@ (s.var :>
                 [id |-> s.id, securityGroupName |-> s.securityGroupName,
                  vpc |-> s.vpc])])

\* securityGroup.addIngressRule(peer, port, description).
SecurityGroupAddIngressRule(v) ==
    /\ Ready(v, "AddIngressRule")
    /\ LET s == Cur(v)
       IN Step(v, [stack[v] EXCEPT !.ingress =
                 AddIngressRule(@, IngressRule(s.securityGroup,
                                               PeerIpv4(s.peer.cidrIp),
                                               s.connection, s.description))])

\* route53.HostedZone.fromLookup.
HostedZoneFromLookup(v) ==
    /\ Ready(v, "HostedZoneFromLookup")
    /\ LET s == Cur(v)
       IN Step(v, [stack[v] EXCEPT !.zones = @ @@ (s.var :>
                 [id |-> s.id, zoneName |-> s.domainName])])

\* new DnsValidatedCertificate: no alternative names are asked for.
NewCertificate(v) ==
    /\ Ready(v, "DnsValidatedCertificate")
    /\ LET s == Cur(v)
       IN Step(v, [stack[v] EXCEPT !.certs = @ @@ (s.var :>
                 [id |-> s.id, domainName |-> s.domainName,
                  subjectAlternativeNames |->
                     IF "subjectAlternativeNames" \in DOMAIN s
                     THEN Range(s.subjectAlternativeNames) ELSE {},
                  certificateName |->
                     IF "certificateName" \in DOMAIN s
                     THEN s.certificateName ELSE Undefined,
                  hostedZone |-> s.hostedZone, region |-> s.region])])

\* new elbv2.ApplicationLoadBalancer.
NewLoadBalancer(v) ==
    /\ Ready(v, "ApplicationLoadBalancer")
    /\ LET s == Cur(v)
       IN Step(v, [stack[v] EXCEPT !.albs = @ @@ (s.var :>
                 [id |-> s.id, loadBalancerName |-> s.loadBalancerName,
                  vpc |-> s.vpc, internetFacing |-> s.internetFacing,
                  securityGroups |-> <<s.securityGroup>>])])

\* alb.addListener: the protocol follows from the port; an open listener
\* admits anyone on its port through the balancer's security groups.
AddListener(v) ==
    /\ Ready(v, "AddListener")
    /\ LET s == Cur(v)
           protocol == DefaultProtocolForPort(s.port)
           lbGroups == stack[v].albs[s.loadBalancer].securityGroups
       IN /\ protocol # "error"
          /\ protocol = "HTTPS" => Len(s.certificates) > 0
          /\ Step(v, [stack[v] EXCEPT
                 !.listeners = @ @@ (s.var :>
                    [id |-> s.id, loadBalancer |-> s.loadBalancer,
                     port |-> s.port, protocol |-> protocol,
                     certificates |-> s.certificates,
                     defaultAction |-> <<>>]),
                 !.ingress =
                    IF ListenerOpen(s)
                    THEN AllowFrom(@, lbGroups, <<PeerIpv4("0.0.0.0/0")>>,
                                   PortTcp(s.port),
                                   "Allow from anyone on port "
                                      \o ToString(s.port))
                    ELSE @])

\* new elbv2.ApplicationTargetGroup.
NewTargetGroup(v) ==
    /\ Ready(v, "ApplicationTargetGroup")
    /\ LET s == Cur(v)
       IN Step(v, [stack[v] EXCEPT !.targetGroups = @ @@ (s.var :>
                 [id |-> s.id, targetGroupName |-> s.targetGroupName,
                  vpc |-> s.vpc, port |-> s.port,
                  targetType |-> s.targetType, protocol |-> s.protocol,
                  healthCheck |-> s.healthCheck,
                  connectableMembers |-> <<>>, listeners |-> <<>>])])

\* listener.addTargetGroups without a priority: the groups become the
\* listener's default action, and each group registers the listener.
AddTargetGroups(v) ==
    /\ Ready(v, "AddTargetGroups")
    /\ LET s == Cur(v)
           st == stack[v]
       IN Step(v, [st EXCEPT
                 !.listeners[s.listener].defaultAction = s.targetGroups,
                 !.ingress = ConnectAll(@, st, <<s.listener>>,
                                        MembersOf(st, s.targetGroups)),
                 !.targetGroups =
                    [g \in DOMAIN @ |->
                       IF g \in Range(s.targetGroups)
                       THEN [@[g] EXCEPT !.listeners = Append(@, s.listener)]
                       ELSE @[g]]])

\* new ecs.Cluster.
NewCluster(v) ==
    /\ Ready(v, "Cluster")
    /\ LET s == Cur(v)
       IN Step(v, [stack[v] EXCEPT !.clusters = @ @@ (s.var :>
                 [id |-> s.id, clusterName |-> s.clusterName,
                  vpc |-> s.vpc])])

\* new ecs.FargateTaskDefinition.
NewTaskDefinition(v) ==
    /\ Ready(v, "FargateTaskDefinition")
    /\ LET s == Cur(v)
       IN Step(v, [stack[v] EXCEPT !.taskDefs = @ @@ (s.var :>
                 [id |-> s.id, memoryLimitMiB |-> s.memoryLimitMiB,
                  cpu |-> s.cpu, networkMode |-> "awsvpc",
                  containers |-> <<>>])])

\* taskDefinition.addContainer.
AddContainer(v) ==
    /\ Ready(v, "AddContainer")
    /\ LET s == Cur(v)
       IN Step(v, [stack[v] EXCEPT
                 !.containers = @ @@ (s.var :>
                    [id |-> s.id, containerName |-> s.containerName,
                     taskDefinition |-> s.taskDefinition,
                     image |-> s.image, logging |-> s.logging,
                     portMappings |-> <<>>]),
                 !.taskDefs[s.taskDefinition].containers = Append(@, s.var)])

\* container.addPortMappings: in awsvpc mode the host port, when given, is
\* the container port.
AddPortMappings(v) ==
    /\ Ready(v, "AddPortMappings")
    /\ LET s == Cur(v)
       IN /\ s.hostPort = s.containerPort
          /\ Step(v, [stack[v] EXCEPT
                 !.containers[s.container].portMappings =
                    Append(@, [containerPort |-> s.containerPort,
                               hostPort |-> s.hostPort])])

\* new ecs.FargateService.
NewService(v) ==
    /\ Ready(v, "FargateService")
    /\ LET s == Cur(v)
       IN Step(v, [stack[v] EXCEPT !.services = @ @@ (s.var :>
                 [id |-> s.id, serviceName |-> s.serviceName,
                  cluster |-> s.cluster,
                  taskDefinition |-> s.taskDefinition,
                  desiredCount |-> s.desiredCount,
                  assignPublicIp |-> s.assignPublicIp,
                  securityGroups |-> s.securityGroups,
                  loadBalancers |-> <<>>])])

\* service.attachToApplicationTargetGroup: the service's default container
\* and its first port mapping become a member of the group; every listener
\* of the group is connected to the service; the service records the group.
AttachToApplicationTargetGroup(v) ==
    /\ Ready(v, "AttachToApplicationTargetGroup")
    /\ LET s == Cur(v)
           st == stack[v]
           td == st.taskDefs[st.services[s.service].taskDefinition]
       IN /\ Len(td.containers) > 0
          /\ Len(st.containers[td.containers[1]].portMappings) > 0
          /\ LET c == st.containers[td.containers[1]]
                 pm == c.portMappings[1]
                 member == [connectable |-> s.service,
                            portRange |-> PortTcp(pm.containerPort)]
             IN Step(v, [st EXCEPT
                   !.targetGroups[s.targetGroup].connectableMembers =
                      Append(@, member),
                   !.ingress =
                      ConnectAll(@, st,
                                 st.targetGroups[s.targetGroup].listeners,
                                 <<member>>),
                   !.services[s.service].loadBalancers =
                      Append(@, [targetGroup |-> s.targetGroup,
                                 containerName |-> c.containerName,
                                 containerPort |-> pm.containerPort])])

\* new route53.ARecord with RecordTarget.fromAlias(LoadBalancerTarget(alb)):
\* an alias target and no address values.
NewARecord(v) ==
    /\ Ready(v, "ARecord")
    /\ LET s == Cur(v)
       IN Step(v, [stack[v] EXCEPT !.records = @ \cup
                 {[id |-> s.id, zone |-> s.zone, recordName |-> s.recordName,
                   aliasTarget |-> s.target.alias, values |-> {}]}])

Next ==
    \E v \in Variants :
        \/ NewVpc(v)
        \/ NewSecurityGroup(v)
        \/ SecurityGroupAddIngressRule(v)
        \/ HostedZoneFromLookup(v)
        \/ NewCertificate(v)
        \/ NewLoadBalancer(v)
        \/ AddListener(v)
        \/ NewTargetGroup(v)
        \/ AddTargetGroups(v)
        \/ NewCluster(v)
        \/ NewTaskDefinition(v)
        \/ AddContainer(v)
        \/ AddPortMappings(v)
        \/ NewService(v)
        \/ AttachToApplicationTargetGroup(v)
        \/ NewARecord(v)

Spec == Init /\ [][Next]_vars

\* ------------------------------------------------------------------ claims

\* The ingress rules of security group g, in the order they were added.
RulesOf(v, g) == SelectSeq(stack[v].ingress, LAMBDA r : r.group = g)

Ran(v, op) == op \in Range(stack[v].log)

\* C1 (as stated): once the constructor has run to completion the
\* workload-facing security group has no ingress rule at all.
C1_AppGroupHasNoIngress ==
    \A v \in Variants :
        Done(v) => Len(RulesOf(v, "securityGroupApp")) = 0

\* C1 (amended): the workload-facing security group has no ingress rule
\* until the service is attached to the target group; from the attachment
\* on, and so once the constructor has completed, it has exactly one: TCP
\* port 3000 from the balancer-facing security group, and none from a CIDR.
C1_AppGroupIngressOnlyFromBalancer ==
    \A v \in Variants :
        LET rules == RulesOf(v, "securityGroupApp")
        IN /\ ~Ran(v, "AttachToApplicationTargetGroup") => Len(rules) = 0
           /\ Ran(v, "AttachToApplicationTargetGroup") =>
                /\ Len(rules) = 1
                /\ rules[1].ipProtocol = "tcp"
                /\ rules[1].fromPort = 3000
                /\ rules[1].toPort = 3000
                /\ rules[1].sourceSecurityGroupId = "securityGroupELB"
                /\ rules[1].cidrIp = None

C1_Witness ==
    \E v \in Variants :
        /\ Done(v)
        /\ Len(RulesOf(v, "securityGroupApp")) = 1
        /\ stack[v].services["service"].securityGroups = <<"securityGroupApp">>

\* C2: once the constructor has run to completion the balancer-facing
\* security group has exactly one ingress rule, TCP 443 from 0.0.0.0/0:
\* the listener's own rule for its port is the rule already there.
C2_ElbGroupSingleHttpsRule ==
    \A v \in Variants :
        Done(v) =>
            LET rules == RulesOf(v, "securityGroupELB")
            IN /\ Len(rules) = 1
               /\ rules[1].ipProtocol = "tcp"
               /\ rules[1].fromPort = 443
               /\ rules[1].toPort = 443
               /\ rules[1].cidrIp = "0.0.0.0/0"
               /\ rules[1].sourceSecurityGroupId = None

C2_Witness ==
    \E v \in Variants :
        /\ Done(v)
        /\ Ran(v, "AddIngressRule")
        /\ Ran(v, "AddListener")
        /\ stack[v].listeners["listenerHTTP"].port = 443
        /\ Len(RulesOf(v, "securityGroupELB")) = 1

\* The place of a statement in the claimed order: network, security
\* policies, zone and certificate, balancer with listener and target group,
\* compute, binding of the service to the target group, DNS record.
Phase(op) ==
    CASE op = "Vpc" -> 1
      [] op \in {"SecurityGroup", "AddIngressRule"} -> 2
      [] op \in {"HostedZoneFromLookup", "DnsValidatedCertificate"} -> 3
      [] op \in {"ApplicationLoadBalancer", "AddListener",
                 "ApplicationTargetGroup", "AddTargetGroups"} -> 4
      [] op \in {"Cluster", "FargateTaskDefinition", "AddContainer",
                 "AddPortMappings", "FargateService"} -> 5
      [] op = "AttachToApplicationTargetGroup" -> 6
      [] op = "ARecord" -> 7

\* C3: at every step the next statement reads only constants already
\* declared; the statements run in the claimed one-directional order; and
\* the DNS alias record is created last, after the load balancer.
C3_DependencyOrder ==
    \A v \in Variants :
        LET log == stack[v].log
        IN /\ Running(v) => Refs(Cur(v)) \subseteq stack[v].bound
           /\ \A i, j \in DOMAIN log : i < j => Phase(log[i]) <= Phase(log[j])
           /\ Done(v) =>
                /\ log[Len(log)] = "ARecord"
                /\ \A i \in 1..(Len(log) - 1) : log[i] # "ARecord"
                /\ \E i \in 1..(Len(log) - 1) :
                      log[i] = "ApplicationLoadBalancer"
                /\ \A r \in stack[v].records :
                      r.aliasTarget \in DOMAIN stack[v].albs

C3_Witness ==
    \E v \in Variants :
        /\ Done(v)
        /\ stack[v].log[Len(stack[v].log)] = "ARecord"
        /\ Cardinality(stack[v].records) = 1

\* C4: the load balancer has exactly one listener; it is on port 443, speaks
\* HTTPS, presents the issued certificate, and its default action forwards
\* to exactly one target group, the only one of the stack.
C4_SingleHttpsListener ==
    \A v \in Variants :
        Done(v) =>
            LET st == stack[v]
                ls == {l \in DOMAIN st.listeners :
                          st.listeners[l].loadBalancer = "alb"}
            IN /\ DOMAIN st.albs = {"alb"}
               /\ DOMAIN st.listeners = ls
               /\ Cardinality(ls) = 1
               /\ \A l \in ls :
                    /\ st.listeners[l].port = 443
                    /\ st.listeners[l].protocol = "HTTPS"
                    /\ st.listeners[l].certificates = <<"cert">>
                    /\ "cert" \in DOMAIN st.certs
                    /\ st.listeners[l].defaultAction = <<"targetGroup">>
               /\ DOMAIN st.targetGroups = {"targetGroup"}

C4_Witness ==
    \E v \in Variants :
        /\ Done(v)
        /\ Ran(v, "AddTargetGroups")
        /\ Len(stack[v].listeners["listenerHTTP"].defaultAction) = 1

\* C5: the service wants exactly one replica, assigns it a public address,
\* has the workload-facing security group and no other, runs the stack's
\* only task definition in the stack's only cluster, and is registered in
\* the target group the listener forwards to.
C5_ServiceConfiguration ==
    \A v \in Variants :
        Done(v) =>
            LET st == stack[v]
                svc == st.services["service"]
            IN /\ DOMAIN st.services = {"service"}
               /\ svc.desiredCount = 1
               /\ svc.assignPublicIp = TRUE
               /\ svc.securityGroups = <<"securityGroupApp">>
               /\ DOMAIN st.taskDefs = {svc.taskDefinition}
               /\ DOMAIN st.clusters = {svc.cluster}
               /\ Len(svc.loadBalancers) = 1
               /\ \A l \in DOMAIN st.listeners :
                     svc.loadBalancers[1].targetGroup
                        \in Range(st.listeners[l].defaultAction)
               /\ \E i \in DOMAIN st.targetGroups[
                              svc.loadBalancers[1].targetGroup].connectableMembers :
                     st.targetGroups[svc.loadBalancers[1].targetGroup]
                        .connectableMembers[i].connectable = "service"

C5_Witness ==
    \E v \in Variants :
        /\ Done(v)
        /\ Ran(v, "FargateService")
        /\ Ran(v, "AttachToApplicationTargetGroup")
        /\ Len(stack[v].services["service"].loadBalancers) = 1

\* C6: the task definition has exactly one container, the container exactly
\* one port mapping, with host port and container port both 3000, the port
\* of the target group the service is registered into.
C6_SingleContainerPort3000 ==
    \A v \in Variants :
        Done(v) =>
            LET st == stack[v]
                svc == st.services["service"]
                td == st.taskDefs[svc.taskDefinition]
                tg == st.targetGroups[svc.loadBalancers[1].targetGroup]
            IN /\ Len(td.containers) = 1
               /\ {c \in DOMAIN st.containers :
                      st.containers[c].taskDefinition = svc.taskDefinition}
                    = {td.containers[1]}
               /\ Len(st.containers[td.containers[1]].portMappings) = 1
               /\ st.containers[td.containers[1]].portMappings[1].hostPort = 3000
               /\ st.containers[td.containers[1]].portMappings[1].containerPort
                    = 3000
               /\ tg.port = 3000
               /\ svc.loadBalancers[1].containerPort = tg.port

C6_Witness ==
    \E v \in Variants :
        /\ Done(v)
        /\ Ran(v, "AddPortMappings")
        /\ Len(stack[v].containers["container"].portMappings) = 1

\* C7: for every domain d and prefix p the completed stack has a target
\* group named p-target-group on port 3000 with health check path "/" and
\* accepted codes "200", and a DNS record named backend.d whose target is an
\* alias of the load balancer named p-alb, with no address values.
C7_NamesFollowDomainAndPrefix ==
    \A v \in Variants :
        Done(v) =>
            LET st == stack[v]
                tg == st.targetGroups["targetGroup"]
            IN /\ tg.targetGroupName = projectName \o "-target-group"
               /\ tg.port = 3000
               /\ tg.healthCheck.path = "/"
               /\ tg.healthCheck.healthyHttpCodes = "200"
               /\ Cardinality(st.records) = 1
               /\ \A r \in st.records :
                    /\ r.recordName = "backend." \o domainName
                    /\ r.values = {}
                    /\ r.aliasTarget \in DOMAIN st.albs
                    /\ st.albs[r.aliasTarget].loadBalancerName
                          = projectName \o "-alb"

\* The example scenario: d = example.com, p = svc.
C7_Witness ==
    \E v \in Variants :
        /\ Done(v)
        /\ domainName = "example.com"
        /\ projectName = "svc"
        /\ stack[v].targetGroups["targetGroup"].targetGroupName
              = "svc-target-group"
        /\ \E r \in stack[v].records :
              /\ r.recordName = "backend.example.com"
              /\ stack[v].albs[r.aliasTarget].loadBalancerName = "svc-alb"

\* C8: for every number of availability zones, the network has one subnet
\* per group and zone, the subnets' address ranges are pairwise disjoint,
\* and each lies inside the network's range 10.1.0.0/16.
C8_SubnetsDisjointInsideVpc ==
    \A v \in Variants :
        "vpc" \in DOMAIN stack[v].vpcs =>
            LET net == stack[v].vpcs["vpc"]
                sn == net.subnets
            IN /\ net.min = IpToNum(<<10, 1, 0, 0>>)
               /\ net.max = IpToNum(<<10, 1, 255, 255>>)
               /\ Len(sn) = 2 * numAzs
               /\ \A i \in DOMAIN sn :
                    /\ sn[i].min <= sn[i].max
                    /\ net.min <= sn[i].min
                    /\ sn[i].max <= net.max
                    /\ sn[i].max - sn[i].min + 1 = NetSize(24)
               /\ \A i, j \in DOMAIN sn :
                    i # j => (sn[i].max < sn[j].min \/ sn[j].max < sn[i].min)

C8_Witness ==
    \E v \in Variants :
        /\ "vpc" \in DOMAIN stack[v].vpcs
        /\ numAzs >= 2
        /\ Len(stack[v].vpcs["vpc"].subnets) = 2 * numAzs
        /\ \E i, j \in DOMAIN stack[v].vpcs["vpc"].subnets :
              /\ stack[v].vpcs["vpc"].subnets[i].group = "PublicSubnet"
              /\ stack[v].vpcs["vpc"].subnets[j].group = "PrivateIsolatedSubnet"

\* The construct tree without the certificates' display name.
WithoutCertificateName(st) ==
    [st EXCEPT !.certs =
        [c \in DOMAIN @ |-> [@[c] EXCEPT !.certificateName = Undefined]]]

\* C9: run side by side, the two variants have, after the same number of
\* statements, declared the same resources with the same attributes and
\* references in the same order, but for the certificate's display name,
\* which only the Fargate variant sets.
C9_VariantsAgree ==
    /\ stack["Ec2"].pc = stack["Fargate"].pc =>
          WithoutCertificateName(stack["Ec2"])
             = WithoutCertificateName(stack["Fargate"])
    /\ "cert" \in DOMAIN stack["Ec2"].certs =>
          stack["Ec2"].certs["cert"].certificateName = Undefined
    /\ "cert" \in DOMAIN stack["Fargate"].certs =>
          stack["Fargate"].certs["cert"].certificateName
             = projectName \o "-certificate"

C9_Witness ==
    /\ \A v \in Variants : Done(v)
    /\ stack["Ec2"] # stack["Fargate"]
    /\ stack["Ec2"].records = stack["Fargate"].records

\* The names a certificate is valid for.
CertificateNames(c) == {c.domainName} \cup c.subjectAlternativeNames

\* C10: the name of every alias record that points at the load balancer is
\* a name that a certificate presented by the balancer's listener is valid
\* for.
C10_RecordNameCoveredByCertificate ==
    \A v \in Variants :
        Done(v) =>
            \A r \in stack[v].records :
                \A l \in DOMAIN stack[v].listeners :
                    stack[v].listeners[l].loadBalancer = r.aliasTarget =>
                        \E c \in Range(stack[v].listeners[l].certificates) :
                            r.recordName \in CertificateNames(stack[v].certs[c])

====
